---- MODULE Spec2Model ----
(***************************************************************************)
(* The reference-data cache of asanawarrior (asana/cache.go): one acache   *)
(* behind a sync.RWMutex, used by concurrent goroutines.                   *)
(*                                                                         *)
(* Strings whose characters the code inspects (names, emails) are          *)
(* sequences of one-character strings, the empty string being <<>>.  Ids   *)
(* are only compared, and are atoms, the empty Id being "".                *)
(***************************************************************************)
EXTENDS Integers, Sequences, FiniteSets, TLC

VARIABLES
    workspaces,   \* acache.workspaces  []Basic
    defaultWork,  \* acache.defaultWork string
    projects,     \* acache.projects    []Basic
    tags,         \* acache.tags        []Basic
    users,        \* acache.users       []Basic
    tagmap,       \* acache.tagmap      map[string]string (nil until made)
    usermap,      \* acache.usermap     map[string]string (nil until made)
    sections,     \* acache.sections    map[string]*asection (nil until made)
    writer,       \* the goroutine holding the RWMutex exclusively, or NoProc
    readers,      \* the goroutines holding the RWMutex in shared mode
    remoteTags,   \* the tags of the remote service, in creation order
    pc,           \* each goroutine's position
    op,           \* each goroutine's current (or last) call and its arguments
    ret,          \* the value each goroutine's last call returned
    seen,         \* TagId: the first word read of the slice header of c.tags
    resp,         \* CreateTag: the decoded response of runPost (bdo.Data)
    crashed,      \* "no", or how the process ended: "fatal" (log.Fatalf), "panic"
    calls,        \* the number of calls begun
    ctlog         \* the CreateTag calls returned since update() last took the lock

vars == <<workspaces, defaultWork, projects, tags, users, tagmap, usermap, sections,
          writer, readers, remoteTags, pc, op, ret, seen, resp, crashed, calls, ctlog>>

cacheVars == <<workspaces, defaultWork, projects, tags, users, tagmap, usermap, sections>>

----
(* Bounds *)

NumProcs == 2
MaxCalls == 4
MaxRemoteTags == 3

Procs == 1..NumProcs
NoProc == 0

----
(* Data *)

EmptyStr == <<>>
NoId == ""

\* type Basic struct { Id, Name, Email string } (declared outside cache.go)
Basic(id, name, email) == [Id |-> id, Name |-> name, Email |-> email]

\* the configured *domain flag
domain == <<"d">>

\* a nil slice
NilSlice == <<>>

\* a nil map and a map made by make(map[string]string)
NilMap == [nil |-> TRUE, m |-> <<>>]
MakeMap == [nil |-> FALSE, m |-> <<>>]

\* m[k] for a map[string]string: the zero value when k is absent or m is nil
MapGet(mp, k, zero) == IF k \in DOMAIN mp.m THEN mp.m[k] ELSE zero

\* m[k] = v on a map that is not nil
MapPut(mp, k, v) ==
    [nil |-> FALSE, m |-> [x \in (DOMAIN mp.m) \cup {k} |-> IF x = k THEN v ELSE mp.m[x]]]

RECURSIVE IndexOf(_, _, _, _)
\* the map left by "for _, b := range bs { m[b.Id] = b.<field> }" run from entry i
\* on the map acc: later entries overwrite earlier ones
IndexOf(bs, field, i, acc) ==
    IF i > Len(bs) THEN acc
    ELSE IndexOf(bs, field, i + 1, MapPut(acc, bs[i].Id, bs[i][field]))

\* the index of the first entry of bs whose <field> equals v, 0 when there is none:
\* "for _, b := range bs { if b.<field> == v { return ... } }"
FirstMatch(bs, field, v) ==
    IF \E i \in 1..Len(bs) : bs[i][field] = v
    THEN CHOOSE i \in 1..Len(bs) :
             /\ bs[i][field] = v
             /\ \A j \in 1..(i - 1) : bs[j][field] # v
    ELSE 0

\* the number of entries of bs whose <field> equals v
Count(bs, field, v) == Cardinality({i \in 1..Len(bs) : bs[i][field] = v})

\* the inputs the remote service answers with
TagNames == {<<"x">>, <<"y">>}
WorkspaceLists ==
    { <<Basic("w1", domain, EmptyStr), Basic("w2", <<"o">>, EmptyStr)>>,
      <<Basic("w2", <<"o">>, EmptyStr)>>,
      <<Basic("w2", <<"o">>, EmptyStr), Basic("w3", domain, EmptyStr)>> }
ProjectLists ==
    { <<Basic("p1", <<"a">>, EmptyStr)>>,
      <<Basic("p2", <<"a">>, EmptyStr), Basic("p3", <<"b">>, EmptyStr)>> }
UserLists ==
    { <<Basic("u1", EmptyStr, <<"j", "@", "e">>)>>,
      <<Basic("u1", EmptyStr, <<"j", "@", "e">>), Basic("u2", EmptyStr, <<"j", "@", "f">>),
        Basic("u3", EmptyStr, <<"k">>)>> }
ProjectIds == {"p1", "p2"}
ProjectNames == {<<"a">>, <<"b">>}
UserIds == {"u1", "u2", "u3"}
UserEmails == {<<"j">>, <<"k">>, <<"j", "@", "e">>}
SectionIds == {"1", "2"}
SectionNames == { <<"D">>, <<"I", " ", "P", ":">>, <<"I", "P", ":">>, <<"-", ":">> }

----
(* Strings *)

\* the characters 'A'..'Z', 'a'..'z', '0'..'9' kept by AddSection's strings.Map
AlphaNum ==
    { "A", "B", "C", "D", "E", "F", "G", "H", "I", "J", "K", "L", "M",
      "N", "O", "P", "Q", "R", "S", "T", "U", "V", "W", "X", "Y", "Z",
      "a", "b", "c", "d", "e", "f", "g", "h", "i", "j", "k", "l", "m",
      "n", "o", "p", "q", "r", "s", "t", "u", "v", "w", "x", "y", "z",
      "0", "1", "2", "3", "4", "5", "6", "7", "8", "9" }

\* strings.HasSuffix(s, ":")
HasSuffixColon(s) == Len(s) > 0 /\ s[Len(s)] = ":"

\* strings.Map(func(r) { keep letters and digits, drop (-1) the rest }, s)
StringsMap(s) == SelectSeq(s, LAMBDA r : r \in AlphaNum)

\* the Email left whole
SplitNone(s) == s

\* strings.Split(s, "@")[0]: s up to its first '@', all of s when it has none
SplitFirst(s) ==
    IF \E i \in 1..Len(s) : s[i] = "@"
    THEN SubSeq(s, 1, (CHOOSE i \in 1..Len(s) :
                          s[i] = "@" /\ \A j \in 1..(i - 1) : s[j] # "@") - 1)
    ELSE s

\* update's loop over c.users: u.Email = strings.Split(u.Email, "@")[0]
NormalizeUsers(us) == [i \in 1..Len(us) |-> [us[i] EXCEPT !.Email = SplitFirst(us[i].Email)]]

\* the characters of the model's tag names in byte order, and the order of two names
ByteOrder == <<"x", "y">>
Rank(c) == CHOOSE i \in 1..Len(ByteOrder) : ByteOrder[i] = c
RECURSIVE StrLess(_, _)
StrLess(a, b) ==
    IF Len(b) = 0 THEN FALSE
    ELSE IF Len(a) = 0 THEN TRUE
    ELSE IF Rank(Head(a)) # Rank(Head(b)) THEN Rank(Head(a)) < Rank(Head(b))
    ELSE StrLess(Tail(a), Tail(b))

\* what getVarious(path, "name") can return for the entities bs of the remote
\* service: bs sorted by Name, entries of equal Name in any order
SortedLists(bs) ==
    LET n == Len(bs)
        perms == {f \in [1..n -> 1..n] : \A i, j \in 1..n : i # j => f[i] # f[j]}
    IN  { [i \in 1..n |-> bs[f[i]]] : f \in
            {g \in perms : \A i, j \in 1..n : i < j => ~StrLess(bs[g[j]].Name, bs[g[i]].Name)} }

\* what a failed getVarious leaves in the slice assigned from it
FetchFailed == NilSlice

----
(* The computations of the cache's methods *)

\* update: "for _, w := range c.workspaces { if w.Name == *domain { c.defaultWork = w.Id } }"
\* run on the fetched list ws with c.defaultWork = dw
ResolveDefault(ws, dw) ==
    LET hits == {i \in 1..Len(ws) : ws[i].Name = domain}
    IN  IF hits = {} THEN dw
        ELSE ws[CHOOSE i \in hits : \A j \in hits : j <= i].Id

\* ProjectId's scan of c.projects
ProjectIdOf(ps, name) ==
    LET i == FirstMatch(ps, "Name", name) IN IF i = 0 THEN NoId ELSE ps[i].Id

\* UserId's scan of c.users
UserIdOf(us, email) ==
    LET i == FirstMatch(us, "Email", email) IN IF i = 0 THEN NoId ELSE us[i].Id

\* User: c.usermap[uid]
UserOf(um, uid) == MapGet(um, uid, EmptyStr)

\* Tag: c.tagmap[uid]
TagOf(tm, uid) == MapGet(tm, uid, EmptyStr)

\* TagId's scan of the slice it ranges over
TagIdOf(ts, tname) ==
    LET i == FirstMatch(ts, "Name", tname) IN IF i = 0 THEN NoId ELSE ts[i].Id

\* a CreateTag whose scan after taking the lock finds nothing
FindTagNever(ts, tname) == NoId

\* CreateTag's scan of c.tags after it took the lock: the Id found, NoId when none
FindTag(ts, tname) ==
    LET i == FirstMatch(ts, "Name", tname) IN IF i = 0 THEN NoId ELSE ts[i].Id

\* the section list of project projId: c.sections[projId], with whether it was found
SectionList(sm, projId) == IF projId \in DOMAIN sm.m THEN sm.m[projId] ELSE <<>>
SectionFound(sm, projId) == projId \in DOMAIN sm.m

\* SectionName's scan
SectionNameOf(sm, projId, secId) ==
    LET l == SectionList(sm, projId)
        i == FirstMatch(l, "Id", secId)
    IN  IF ~SectionFound(sm, projId) \/ i = 0 THEN EmptyStr ELSE l[i].Name

\* SectionId's scan
SectionIdOf(sm, projId, sectionName) ==
    LET l == SectionList(sm, projId)
        i == FirstMatch(l, "Name", sectionName)
    IN  IF ~SectionFound(sm, projId) \/ i = 0 THEN NoId ELSE l[i].Id

\* AddSection, first part: the map after "if !found { c.sections[projId] = new(asection) }"
EnsureSection(sm, projId) ==
    IF SectionFound(sm, projId) THEN sm ELSE MapPut(sm, projId, <<>>)

\* an AddSection that appends the candidate without looking for its Id
PutSectionAppend(l, secId, name) == Append(l, Basic(secId, name, EmptyStr))

\* AddSection, last part: the list after a candidate whose Name (already mapped by
\* strings.Map) is name was renamed in place or appended
PutSection(l, secId, name) ==
    LET i == FirstMatch(l, "Id", secId)
    IN  IF i # 0 THEN [l EXCEPT ![i].Name = name]
        ELSE Append(l, Basic(secId, name, EmptyStr))

\* the Id the remote service gives the n-th tag created
RemoteTagId(n) == "t" \o ToString(n)

----
(* The state after construction: an empty acache, nobody calling *)

Call(name, a, b) == [name |-> name, a |-> a, b |-> b]

Init ==
    /\ workspaces = NilSlice
    /\ defaultWork = NoId
    /\ projects = NilSlice
    /\ tags = NilSlice
    /\ users = NilSlice
    /\ tagmap = NilMap
    /\ usermap = NilMap
    /\ sections = NilMap
    /\ writer = NoProc
    /\ readers = {}
    /\ remoteTags \in {<<>>, <<Basic(RemoteTagId(1), <<"x">>, EmptyStr)>>}
    /\ pc = [p \in Procs |-> "idle"]
    /\ op = [p \in Procs |-> Call("none", NoId, NoId)]
    /\ ret = [p \in Procs |-> NoId]
    /\ seen = [p \in Procs |-> NilSlice]
    /\ resp = [p \in Procs |-> Basic(NoId, EmptyStr, EmptyStr)]
    /\ crashed = "no"
    /\ calls = 0
    /\ ctlog = <<>>

\* goroutine p begins the call o
Begin(p, o) ==
    /\ crashed = "no"
    /\ pc[p] = "idle"
    /\ calls < MaxCalls
    /\ calls' = calls + 1
    /\ op' = [op EXCEPT ![p] = o]

\* goroutine p is at position at of its call
At(p, at) == crashed = "no" /\ pc[p] = at

Goto(p, at) == pc' = [pc EXCEPT ![p] = at]

\* p's call returns v
Return(p, v) ==
    /\ pc' = [pc EXCEPT ![p] = "idle"]
    /\ ret' = [ret EXCEPT ![p] = v]

\* a return that leaves the write lock held
UnlockKept(p) == UNCHANGED <<writer, readers>>

\* c.Lock(), c.Unlock(), c.RLock(), c.RUnlock() of the embedded sync.RWMutex
Lock(p) == writer = NoProc /\ readers = {} /\ writer' = p /\ UNCHANGED readers
Unlock(p) == writer' = NoProc /\ UNCHANGED readers
RLock(p) == writer = NoProc /\ readers' = readers \cup {p} /\ UNCHANGED writer
RUnlock(p) == readers' = readers \ {p} /\ UNCHANGED writer

----
(* update *)

\* c.Lock(); defer c.Unlock()
UpdateLock(p) ==
    /\ Begin(p, Call("update", NoId, NoId))
    /\ Lock(p)
    /\ Goto(p, "update_workspaces")
    /\ ctlog' = <<>>
    /\ UNCHANGED <<cacheVars, remoteTags, ret, seen, resp, crashed>>

\* the workspaces fetch, the scan for *domain and the log.Fatalf
UpdateWorkspaces(p) ==
    /\ At(p, "update_workspaces")
    /\ \/ /\ workspaces' = FetchFailed
          /\ Return(p, "workspaces")
          /\ Unlock(p)
          /\ UNCHANGED <<defaultWork, crashed>>
       \/ \E ws \in WorkspaceLists :
            /\ workspaces' = ws
            /\ defaultWork' = ResolveDefault(ws, defaultWork)
            /\ IF defaultWork' = NoId
               THEN crashed' = "fatal" /\ UNCHANGED <<pc, ret, writer, readers>>
               ELSE Goto(p, "update_projects") /\ UNCHANGED <<ret, writer, readers, crashed>>
    /\ UNCHANGED <<projects, tags, users, tagmap, usermap, sections,
                   remoteTags, op, seen, resp, calls, ctlog>>

\* the projects fetch, a failure of it dropping the tags of the last update too
UpdateProjectsClearing(p) ==
    /\ At(p, "update_projects")
    /\ \/ /\ projects' = FetchFailed
          /\ tags' = NilSlice
          /\ Return(p, "projects")
          /\ Unlock(p)
       \/ \E ps \in ProjectLists :
            /\ projects' = ps
            /\ Goto(p, "update_tags")
            /\ UNCHANGED <<tags, ret, writer, readers>>
    /\ UNCHANGED <<workspaces, defaultWork, users, tagmap, usermap, sections,
                   remoteTags, op, seen, resp, crashed, calls, ctlog>>

\* the projects fetch
UpdateProjects(p) ==
    /\ At(p, "update_projects")
    /\ \/ /\ projects' = FetchFailed
          /\ Return(p, "projects")
          /\ Unlock(p)
       \/ \E ps \in ProjectLists :
            /\ projects' = ps
            /\ Goto(p, "update_tags")
            /\ UNCHANGED <<ret, writer, readers>>
    /\ UNCHANGED <<workspaces, defaultWork, tags, users, tagmap, usermap, sections,
                   remoteTags, op, seen, resp, crashed, calls, ctlog>>

\* c.updateTags(): the tags fetch, and tagmap rebuilt from the fetched tags
updateTags(p) ==
    /\ At(p, "update_tags")
    /\ \/ /\ tags' = FetchFailed
          /\ Return(p, "updateTags")
          /\ Unlock(p)
          /\ UNCHANGED tagmap
       \/ \E ts \in SortedLists(remoteTags) :
            /\ tags' = ts
            /\ tagmap' = IndexOf(ts, "Name", 1, MakeMap)
            /\ Goto(p, "update_users")
            /\ UNCHANGED <<ret, writer, readers>>
    /\ UNCHANGED <<workspaces, defaultWork, projects, users, usermap, sections,
                   remoteTags, op, seen, resp, crashed, calls, ctlog>>

\* the users fetch and the indexes rebuilt, c.sections left as it was
UpdateUsersKeepingSections(p) ==
    /\ At(p, "update_users")
    /\ \/ /\ users' = FetchFailed
          /\ Return(p, "users")
          /\ UNCHANGED usermap
       \/ \E us \in UserLists :
            /\ users' = NormalizeUsers(us)
            /\ usermap' = IndexOf(users', "Email", 1, MakeMap)
            /\ Return(p, "nil")
    /\ Unlock(p)
    /\ UNCHANGED <<workspaces, defaultWork, projects, tags, tagmap, sections,
                   remoteTags, op, seen, resp, crashed, calls, ctlog>>

\* the users fetch, the emails cut at '@', usermap rebuilt, sections reset, return nil
UpdateUsers(p) ==
    /\ At(p, "update_users")
    /\ \/ /\ users' = FetchFailed
          /\ Return(p, "users")
          /\ UNCHANGED <<usermap, sections>>
       \/ \E us \in UserLists :
            /\ users' = NormalizeUsers(us)
            /\ usermap' = IndexOf(users', "Email", 1, MakeMap)
            /\ sections' = MakeMap
            /\ Return(p, "nil")
    /\ Unlock(p)
    /\ UNCHANGED <<workspaces, defaultWork, projects, tags, tagmap,
                   remoteTags, op, seen, resp, crashed, calls, ctlog>>

----
(* The lookups: c.RLock(); defer c.RUnlock(); return <a read of the cache> *)

\* c.RLock() of the lookup o
LookupRLock(p, o) ==
    /\ Begin(p, o)
    /\ RLock(p)
    /\ Goto(p, o.name)
    /\ UNCHANGED <<cacheVars, remoteTags, ret, seen, resp, crashed, ctlog>>

\* the lookup's read of the cache, its return of v and the deferred c.RUnlock()
LookupReturn(p, v) ==
    /\ Return(p, v)
    /\ RUnlock(p)
    /\ UNCHANGED <<cacheVars, remoteTags, op, seen, resp, crashed, calls, ctlog>>

Workspace(p) == At(p, "Workspace") /\ LookupReturn(p, defaultWork)

Projects(p) == At(p, "Projects") /\ LookupReturn(p, projects)

ProjectId(p) == At(p, "ProjectId") /\ LookupReturn(p, ProjectIdOf(projects, op[p].a))

User(p) == At(p, "User") /\ LookupReturn(p, UserOf(usermap, op[p].a))

UserId(p) == At(p, "UserId") /\ LookupReturn(p, UserIdOf(users, op[p].a))

Tag(p) == At(p, "Tag") /\ LookupReturn(p, TagOf(tagmap, op[p].a))

SectionName(p) ==
    At(p, "SectionName") /\ LookupReturn(p, SectionNameOf(sections, op[p].a, op[p].b))

SectionId(p) ==
    At(p, "SectionId") /\ LookupReturn(p, SectionIdOf(sections, op[p].a, op[p].b))

----
(* TagId: c.RLock(); c.RUnlock(); then the scan of c.tags, the lock not held *)

TagIdRLock(p, tname) ==
    /\ Begin(p, Call("TagId", tname, NoId))
    /\ RLock(p)
    /\ Goto(p, "TagId_RUnlock")
    /\ UNCHANGED <<cacheVars, remoteTags, ret, seen, resp, crashed, ctlog>>

\* c.RUnlock(), not deferred
TagIdRUnlock(p) ==
    /\ At(p, "TagId_RUnlock")
    /\ RUnlock(p)
    /\ Goto(p, "TagId_range")
    /\ UNCHANGED <<cacheVars, remoteTags, op, ret, seen, resp, crashed, calls, ctlog>>

\* "range c.tags" reads the slice header of c.tags, several words, with no lock
\* held: the first of the words read
TagIdRange(p) ==
    /\ At(p, "TagId_range")
    /\ seen' = [seen EXCEPT ![p] = tags]
    /\ Goto(p, "TagId_scan")
    /\ UNCHANGED <<cacheVars, writer, readers, remoteTags, op, ret, resp, crashed, calls, ctlog>>

\* the ids a read past the end of the array ranged over can come upon
StrayIds == {NoId, "stray"}

\* the rest of the header is read and the loop runs.  A write of c.tags between the
\* two reads leaves the array of one value with the length of the other; a length
\* beyond the array reads memory that is not the slice's, or faults.
TagIdScan(p) ==
    /\ At(p, "TagId_scan")
    /\ \E h \in {<<seen[p], Len(tags)>>, <<tags, Len(seen[p])>>} :
         LET array == h[1]
             length == h[2]
             within == SubSeq(array, 1, IF length < Len(array) THEN length ELSE Len(array))
             id == TagIdOf(within, op[p].a)
         IN  \/ /\ length <= Len(array) \/ id # NoId
                /\ Return(p, id)
                /\ UNCHANGED crashed
             \/ /\ length > Len(array) /\ id = NoId
                /\ \/ \E g \in StrayIds : Return(p, g) /\ UNCHANGED crashed
                   \/ crashed' = "panic" /\ UNCHANGED <<pc, ret>>
    /\ seen' = [seen EXCEPT ![p] = NilSlice]
    /\ UNCHANGED <<cacheVars, writer, readers, remoteTags, op, resp, calls, ctlog>>

----
(* CreateTag *)

\* the record of a CreateTag call that returns: its argument, the value returned,
\* whether it called runPost, whether it ran without a failure, and how many
\* entries of that Name c.tags held when it took the lock (nobody else writes
\* c.tags while it holds the lock, and it appends only as it returns)
Logged(tname, v, posted, ok) ==
    [name |-> tname, ret |-> v, posted |-> posted, ok |-> ok,
     before |-> Count(tags, "Name", tname)]

\* c.Lock(); defer c.Unlock()
CreateTagLock(p, tname) ==
    /\ Begin(p, Call("CreateTag", tname, NoId))
    /\ Lock(p)
    /\ Goto(p, "CreateTag_scan")
    /\ UNCHANGED <<cacheVars, remoteTags, ret, seen, resp, crashed, ctlog>>

\* the scan of c.tags: return the Id found, or go on to create the tag
CreateTagScan(p) ==
    /\ At(p, "CreateTag_scan")
    /\ LET id == FindTag(tags, op[p].a)
       IN  IF id # NoId
           THEN /\ Return(p, id)
                /\ Unlock(p)
                /\ ctlog' = Append(ctlog, Logged(op[p].a, id, FALSE, TRUE))
           ELSE /\ Goto(p, "CreateTag_post")
                /\ UNCHANGED <<ret, writer, readers, ctlog>>
    /\ UNCHANGED <<cacheVars, remoteTags, op, seen, resp, crashed, calls>>

\* runPost or json.Unmarshal fails and the zero bdo.Data is stored all the same
CreateTagPostStoring(p) ==
    /\ At(p, "CreateTag_post")
    /\ tags' = Append(tags, Basic(NoId, EmptyStr, EmptyStr))
    /\ Return(p, NoId)
    /\ Unlock(p)
    /\ ctlog' = Append(ctlog, Logged(op[p].a, NoId, TRUE, FALSE))
    /\ UNCHANGED <<workspaces, defaultWork, projects, users, tagmap, usermap, sections,
                   remoteTags, resp, op, seen, crashed, calls>>

\* runPost("POST", "tags", v) and json.Unmarshal: either fails and "" is returned,
\* or the remote service creates the tag and its answer is decoded into bdo
CreateTagPost(p) ==
    /\ At(p, "CreateTag_post")
    /\ \/ /\ Return(p, NoId)
          /\ Unlock(p)
          /\ ctlog' = Append(ctlog, Logged(op[p].a, NoId, TRUE, FALSE))
          /\ UNCHANGED <<remoteTags, resp>>
       \/ /\ Len(remoteTags) < MaxRemoteTags
          /\ LET created == Basic(RemoteTagId(Len(remoteTags) + 1), op[p].a, EmptyStr)
             IN  /\ remoteTags' = Append(remoteTags, created)
                 /\ resp' = [resp EXCEPT ![p] = created]
          /\ Goto(p, "CreateTag_store")
          /\ UNCHANGED <<ret, writer, readers, ctlog>>
    /\ UNCHANGED <<cacheVars, op, seen, crashed, calls>>

\* c.tags = append(c.tags, bdo.Data); c.tagmap[bdo.Data.Id] = bdo.Data.Name (a
\* write to a nil map panics); return bdo.Data.Id
CreateTagStore(p) ==
    /\ At(p, "CreateTag_store")
    /\ tags' = Append(tags, resp[p])
    /\ IF tagmap.nil
       THEN /\ crashed' = "panic"
            /\ UNCHANGED <<tagmap, pc, ret, writer, readers, ctlog>>
       ELSE /\ tagmap' = MapPut(tagmap, resp[p].Id, resp[p].Name)
            /\ Return(p, resp[p].Id)
            /\ Unlock(p)
            /\ ctlog' = Append(ctlog, Logged(op[p].a, resp[p].Id, TRUE, TRUE))
            /\ UNCHANGED crashed
    /\ resp' = [resp EXCEPT ![p] = Basic(NoId, EmptyStr, EmptyStr)]
    /\ UNCHANGED <<workspaces, defaultWork, projects, users, usermap, sections,
                   remoteTags, op, seen, calls>>

----
(* AddSection *)

\* c.Lock(); defer c.Unlock()
AddSectionLock(p, projId, sec) ==
    /\ Begin(p, Call("AddSection", projId, sec))
    /\ Lock(p)
    /\ Goto(p, "AddSection")
    /\ UNCHANGED <<cacheVars, remoteTags, ret, seen, resp, crashed, ctlog>>

\* the body: the project's asection made when missing (a write to a nil map
\* panics), the candidate rejected unless its Name ends in ':', its Name mapped,
\* and the entry renamed or appended
AddSection(p) ==
    /\ At(p, "AddSection")
    /\ LET projId == op[p].a
           sec == op[p].b
       IN  IF ~SectionFound(sections, projId) /\ sections.nil
           THEN /\ crashed' = "panic"
                /\ UNCHANGED <<sections, pc, ret, writer, readers>>
           ELSE LET made == EnsureSection(sections, projId)
                    name == StringsMap(sec.Name)
                IN  /\ IF ~HasSuffixColon(sec.Name)
                       THEN sections' = made /\ Return(p, EmptyStr)
                       ELSE /\ sections' = MapPut(made, projId,
                                                  PutSection(made.m[projId], sec.Id, name))
                            /\ Return(p, name)
                    /\ Unlock(p)
                    /\ UNCHANGED crashed
    /\ UNCHANGED <<workspaces, defaultWork, projects, tags, users, tagmap, usermap,
                   remoteTags, op, seen, resp, calls, ctlog>>

----
(* The goroutines' steps *)

TagIds == {RemoteTagId(1), RemoteTagId(2), "none"}
Candidates == {Basic(id, name, EmptyStr) : id \in SectionIds, name \in SectionNames}
SectionKeys == {<<"I", "P">>, <<"D">>}

Next ==
    \E p \in Procs :
        \/ UpdateLock(p)
        \/ UpdateWorkspaces(p)
        \/ UpdateProjects(p)
        \/ updateTags(p)
        \/ UpdateUsers(p)
        \/ LookupRLock(p, Call("Workspace", NoId, NoId))
        \/ Workspace(p)
        \/ LookupRLock(p, Call("Projects", NoId, NoId))
        \/ Projects(p)
        \/ \E name \in ProjectNames : LookupRLock(p, Call("ProjectId", name, NoId))
        \/ ProjectId(p)
        \/ \E uid \in UserIds : LookupRLock(p, Call("User", uid, NoId))
        \/ User(p)
        \/ \E email \in UserEmails : LookupRLock(p, Call("UserId", email, NoId))
        \/ UserId(p)
        \/ \E uid \in TagIds : LookupRLock(p, Call("Tag", uid, NoId))
        \/ Tag(p)
        \/ \E tname \in TagNames : TagIdRLock(p, tname)
        \/ TagIdRUnlock(p)
        \/ TagIdRange(p)
        \/ TagIdScan(p)
        \/ \E tname \in TagNames : CreateTagLock(p, tname)
        \/ CreateTagScan(p)
        \/ CreateTagPost(p)
        \/ CreateTagStore(p)
        \/ \E projId \in ProjectIds, sec \in Candidates : AddSectionLock(p, projId, sec)
        \/ AddSection(p)
        \/ \E projId \in ProjectIds, secId \in SectionIds :
               LookupRLock(p, Call("SectionName", projId, secId))
        \/ SectionName(p)
        \/ \E projId \in ProjectIds, key \in SectionKeys :
               LookupRLock(p, Call("SectionId", projId, key))
        \/ SectionId(p)

Spec == Init /\ [][Next]_vars


----
(* The same goroutines restricted to the calls that touch one part of the cache *)

Update(p) ==
    \/ UpdateLock(p)
    \/ UpdateWorkspaces(p)
    \/ UpdateProjects(p)
    \/ updateTags(p)
    \/ UpdateUsers(p)

\* update, CreateTag, TagId and Tag
NextTags ==
    \E p \in Procs :
        \/ Update(p)
        \/ \E uid \in TagIds : LookupRLock(p, Call("Tag", uid, NoId))
        \/ Tag(p)
        \/ \E tname \in TagNames : TagIdRLock(p, tname)
        \/ TagIdRUnlock(p)
        \/ TagIdRange(p)
        \/ TagIdScan(p)
        \/ \E tname \in TagNames : CreateTagLock(p, tname)
        \/ CreateTagScan(p)
        \/ CreateTagPost(p)
        \/ CreateTagStore(p)

SpecTags == Init /\ [][NextTags]_vars

\* update, AddSection, SectionName and SectionId
NextSections ==
    \E p \in Procs :
        \/ Update(p)
        \/ \E projId \in ProjectIds, sec \in Candidates : AddSectionLock(p, projId, sec)
        \/ AddSection(p)
        \/ \E projId \in ProjectIds, secId \in SectionIds :
               LookupRLock(p, Call("SectionName", projId, secId))
        \/ SectionName(p)
        \/ \E projId \in ProjectIds, key \in SectionKeys :
               LookupRLock(p, Call("SectionId", projId, key))
        \/ SectionId(p)

SpecSections == Init /\ [][NextSections]_vars

\* update, Workspace, Projects, ProjectId, User and UserId
NextDirectory ==
    \E p \in Procs :
        \/ Update(p)
        \/ LookupRLock(p, Call("Workspace", NoId, NoId))
        \/ Workspace(p)
        \/ LookupRLock(p, Call("Projects", NoId, NoId))
        \/ Projects(p)
        \/ \E name \in ProjectNames : LookupRLock(p, Call("ProjectId", name, NoId))
        \/ ProjectId(p)
        \/ \E uid \in UserIds : LookupRLock(p, Call("User", uid, NoId))
        \/ User(p)
        \/ \E email \in UserEmails : LookupRLock(p, Call("UserId", email, NoId))
        \/ UserId(p)

SpecDirectory == Init /\ [][NextDirectory]_vars

----
(* Every kind of call, each with a few arguments, and the scheduling of the calls *)

\* the candidates of AddSection here: one that is rejected, one that is registered
FewCandidates == {Basic("1", <<"D">>, EmptyStr), Basic("1", <<"I", "P", ":">>, EmptyStr)}

\* p begins a call: update, a lookup, TagId, CreateTag or AddSection
Invoke(p) ==
    \/ UpdateLock(p)
    \/ LookupRLock(p, Call("Workspace", NoId, NoId))
    \/ TagIdRLock(p, <<"x">>)
    \/ CreateTagLock(p, <<"x">>)
    \/ \E sec \in FewCandidates : AddSectionLock(p, "p1", sec)

\* p's call in flight takes its next step
Step(p) ==
    \/ UpdateWorkspaces(p)
    \/ UpdateProjects(p)
    \/ updateTags(p)
    \/ UpdateUsers(p)
    \/ Workspace(p)
    \/ TagIdRUnlock(p)
    \/ TagIdRange(p)
    \/ TagIdScan(p)
    \/ CreateTagScan(p)
    \/ CreateTagPost(p)
    \/ CreateTagStore(p)
    \/ AddSection(p)

NextCalls == \E p \in Procs : Invoke(p) \/ Step(p)

\* a goroutine that can run does run, and a remote call made does return: the
\* call in flight of each goroutine takes its next step
SpecFair == Init /\ [][NextCalls]_vars /\ \A p \in Procs : WF_vars(Step(p))

----
(* Properties *)

\* the positions at which a lookup's next step reads a field of the cache
ReadPositions ==
    { "Workspace", "Projects", "ProjectId", "User", "UserId", "Tag",
      "SectionName", "SectionId", "TagId_range", "TagId_scan" }

\* the positions of update() after it has replaced c.workspaces and before it returns
MidUpdate == {"update_projects", "update_tags", "update_users"}

\* p's step is a lookup's read of the cache
Reads(p) == pc[p] \in ReadPositions /\ pc'[p] # pc[p]

\* p's step is the return of update() with the value v
UpdateReturns(p, v) ==
    /\ pc[p] \in {"update_workspaces", "update_projects", "update_tags", "update_users"}
    /\ pc'[p] = "idle"
    /\ ret'[p] = v

\* the Id -> value pairs of a map and of a slice
PairsOfMap(mp) == {<<k, mp.m[k]>> : k \in DOMAIN mp.m}
PairsOfSlice(bs, field) == {<<bs[i].Id, bs[i][field]>> : i \in 1..Len(bs)}

C2_NoDuplicateCreation ==
    [][(~sections.nil /\ Len(remoteTags') > Len(remoteTags))
         => \A i \in 1..Len(remoteTags) :
                remoteTags[i].Name # remoteTags'[Len(remoteTags')].Name]_vars

\* C3: whenever the lock is not held exclusively, tagmap holds exactly the
\* Id -> Name pairs of tags and usermap exactly the Id -> Email pairs of users.
C3_IndicesMatchSlices ==
    writer = NoProc
        => /\ PairsOfMap(tagmap) = PairsOfSlice(tags, "Name")
           /\ PairsOfMap(usermap) = PairsOfSlice(users, "Email")

\* C4: no lookup reads a field of the cache while update(), CreateTag or AddSection
\* holds the lock exclusively.
C4_NoReadUnderWriter ==
    [][\A p \in Procs : Reads(p) => writer = NoProc]_vars

\* C5: no lookup reads the cache in an intermediate state of update(), some
\* collections replaced and others not: whatever a lookup returns is computed from
\* the cache as it was before an update() began or as it was left when it finished.
C5_UpdateAtomicForLookups ==
    [][\A p \in Procs : Reads(p) => \A q \in Procs : pc[q] \notin MidUpdate]_vars

\* C6: when update() returns success, defaultWork is not empty and is the Id of a
\* workspace of the list that update() fetched whose Name is the configured domain.
C6_DefaultWorkspaceResolved ==
    [][\A p \in Procs : UpdateReturns(p, "nil")
         => /\ defaultWork' # NoId
            /\ \E i \in 1..Len(workspaces') :
                 /\ workspaces'[i].Name = domain
                 /\ workspaces'[i].Id = defaultWork']_vars

\* C7: when the projects fetch of update() fails, update() returns the error
\* "projects", Workspace() answers the Id resolved in that update()'s step 2, and
\* ProjectId answers, for every project cached before, the Id it had before.
C7_StaleProjectsAfterFailedFetch ==
    [][\A p \in Procs : (pc[p] = "update_projects" /\ pc'[p] = "idle")
         => /\ ret'[p] = "projects"
            /\ defaultWork' = defaultWork
            /\ \A i \in 1..Len(projects) :
                 ProjectIdOf(projects', projects[i].Name)
                     = ProjectIdOf(projects, projects[i].Name)]_vars

\* C8: AddSection of a candidate whose Name does not end in ':' returns the empty
\* string and leaves the sections registry as it was: no entry and no list for
\* the project is created.
C8_RejectedSectionLeavesRegistry ==
    [][\A p \in Procs :
         (pc[p] = "AddSection" /\ ~HasSuffixColon(op[p].b.Name) /\ pc'[p] # pc[p])
         => /\ ret'[p] = EmptyStr
            /\ sections' = sections]_vars

\* C9: every project's section list holds at most one entry per Id; an accepted
\* AddSection(p, s) whose Id p's list already holds leaves the list's length as it
\* was, and after any accepted AddSection(p, s) SectionName(p, s.Id) is s.Name
\* with everything but letters and digits removed.
C9_OneEntryPerSectionId ==
    [][/\ \A proj \in DOMAIN sections'.m :
            \A i, j \in 1..Len(sections'.m[proj]) :
                i # j => sections'.m[proj][i].Id # sections'.m[proj][j].Id
       /\ \A p \in Procs :
            (pc[p] = "AddSection" /\ pc'[p] = "idle" /\ HasSuffixColon(op[p].b.Name))
            => LET old == SectionList(sections, op[p].a)
                   new == SectionList(sections', op[p].a)
               IN  /\ (\E i \in 1..Len(old) : old[i].Id = op[p].b.Id)
                        => Len(new) = Len(old)
                   /\ SectionNameOf(sections', op[p].a, op[p].b.Id)
                        = StringsMap(op[p].b.Name)]_vars

\* two accepted AddSection calls for one project and one Id, of different names,
\* have returned; the list holds one entry, under the name of one of them
C9_Witness ==
    \E p, q \in Procs :
        /\ p # q
        /\ pc[p] = "idle" /\ pc[q] = "idle"
        /\ op[p].name = "AddSection" /\ op[q].name = "AddSection"
        /\ op[p].a = op[q].a
        /\ op[p].b.Id = op[q].b.Id
        /\ HasSuffixColon(op[p].b.Name) /\ HasSuffixColon(op[q].b.Name)
        /\ StringsMap(op[p].b.Name) # StringsMap(op[q].b.Name)
        /\ crashed = "no"
        /\ Len(SectionList(sections, op[p].a)) = 1
        /\ SectionNameOf(sections, op[p].a, op[p].b.Id) = ret[q]
        /\ ret[p] # ret[q]

\* C10: when update() returns success, TagId(Tag(id)) = id and Tag(TagId(name)) =
\* name for every tag of c.tags, and Tag and TagId answer the empty string for
\* an id and a name that c.tags does not hold.
C10_TagLookupsInverse ==
    [][\A p \in Procs : UpdateReturns(p, "nil")
         => /\ \A i \in 1..Len(tags') :
                 /\ TagIdOf(tags', TagOf(tagmap', tags'[i].Id)) = tags'[i].Id
                 /\ TagOf(tagmap', TagIdOf(tags', tags'[i].Name)) = tags'[i].Name
            /\ \A id \in TagIds :
                 (\A i \in 1..Len(tags') : tags'[i].Id # id) => TagOf(tagmap', id) = EmptyStr
            /\ \A name \in TagNames :
                 (\A i \in 1..Len(tags') : tags'[i].Name # name)
                     => TagIdOf(tags', name) = NoId]_vars

\* C11: a CreateTag call that has reached runPost and returns without storing a
\* tag (runPost or json.Unmarshal failed) returns "", releases the lock in that
\* same step (no second runPost), and leaves c.tags, c.tagmap and the remote
\* service's tags as they were.
C11_FailedCreateLeavesCache ==
    [][\A p \in Procs :
         (pc[p] = "CreateTag_post" /\ pc'[p] \notin {"CreateTag_post", "CreateTag_store"})
             => /\ pc'[p] = "idle"
                /\ ret'[p] = NoId
                /\ writer' = NoProc
                /\ tags' = tags
                /\ tagmap' = tagmap
                /\ remoteTags' = remoteTags]_vars

\* a CreateTag call has failed at runPost on a cache that holds tags
C11_Witness ==
    /\ crashed = "no"
    /\ Len(tags) > 0
    /\ ~tagmap.nil
    /\ \E i \in 1..Len(ctlog) :
         ctlog[i].posted /\ ~ctlog[i].ok /\ ctlog[i].ret = NoId

\* l is full up to its first '@', all of full when full has none
IsLocalPart(l, full) ==
    /\ \A i \in 1..Len(l) : l[i] # "@"
    /\ Len(l) <= Len(full)
    /\ SubSeq(full, 1, Len(l)) = l
    /\ Len(l) = Len(full) \/ full[Len(l) + 1] = "@"

\* C12: when update() returns nil, c.users holds the fetched users, each with its
\* Email cut at the first '@' (whole when it has none); User(Id) is that local
\* part, never an email with an '@' in it, and UserId(local part) is the Id of a
\* fetched user whose email had that local part.
C12_EmailsCutAtFirstAt ==
    [][\A p \in Procs :
         UpdateReturns(p, "nil") =>
           \E us \in UserLists :
             /\ Len(users') = Len(us)
             /\ \A i \in 1..Len(us) :
                  LET l == users'[i].Email
                  IN  /\ users'[i].Id = us[i].Id
                      /\ IsLocalPart(l, us[i].Email)
                      /\ UserOf(usermap', us[i].Id) = l
                      /\ \A k \in 1..Len(UserOf(usermap', us[i].Id)) :
                           UserOf(usermap', us[i].Id)[k] # "@"
                      /\ \E j \in 1..Len(us) :
                           /\ UserIdOf(users', l) = us[j].Id
                           /\ IsLocalPart(l, us[j].Email)]_vars

\* update() has returned nil with the three users fetched: u2's email j@f is held
\* as j, u3's email k, which has no '@', as k
C12_Witness ==
    /\ \E p \in Procs : pc[p] = "idle" /\ op[p].name = "update" /\ ret[p] = "nil"
    /\ Len(users) = 3
    /\ UserOf(usermap, "u2") = <<"j">>
    /\ UserOf(usermap, "u3") = <<"k">>

\* p's step is a step of update() that returns an error
UpdateFails(p) == \E v \in {"workspaces", "projects", "updateTags", "users"} : UpdateReturns(p, v)

\* C13: an update() that fails returns the error of the step it was at, in that
\* step (pc back to idle, the lock released, so no later step of it runs), and
\* every field assigned only after the failing fetch keeps its value.
C13_FailedUpdateFrame ==
    [][\A p \in Procs :
         /\ UpdateFails(p) => writer' = NoProc
         /\ (pc[p] = "update_workspaces" /\ UpdateFails(p)) =>
               /\ ret'[p] = "workspaces"
               /\ UNCHANGED <<defaultWork, projects, tags, tagmap, users, usermap, sections>>
         /\ (pc[p] = "update_projects" /\ UpdateFails(p)) =>
               /\ ret'[p] = "projects"
               /\ UNCHANGED <<tags, tagmap, users, usermap, sections>>
         /\ (pc[p] = "update_tags" /\ UpdateFails(p)) =>
               /\ ret'[p] = "updateTags"
               /\ UNCHANGED <<tagmap, users, usermap, sections>>
         /\ (pc[p] = "update_users" /\ UpdateFails(p)) =>
               /\ ret'[p] = "users"
               /\ UNCHANGED <<usermap, sections>>]_vars

\* an update() has failed at the tags fetch on a cache that an earlier update()
\* had filled: the users and the user index of the earlier update() are in place
C13_Witness ==
    /\ \E p \in Procs : pc[p] = "idle" /\ op[p].name = "update" /\ ret[p] = "updateTags"
    /\ writer = NoProc
    /\ Len(users) > 0
    /\ ~usermap.nil
    /\ ~sections.nil

\* no section of sm is found in sm2, by Id or by Name (a section stored with the
\* empty Name apart, for which SectionName returns "" registered or not)
SectionsGone(sm, sm2) ==
    \A projId \in DOMAIN sm.m :
        \A i \in 1..Len(sm.m[projId]) :
            sm.m[projId][i].Name # EmptyStr =>
                /\ SectionNameOf(sm2, projId, sm.m[projId][i].Id) = EmptyStr
                /\ SectionIdOf(sm2, projId, sm.m[projId][i].Name) = NoId

\* C14 as claimed: when update() returns, with nil or with an error, no section
\* registered before the call is found by SectionName or SectionId.
C14_EveryUpdateClearsSections ==
    [][\A p \in Procs :
         (UpdateFails(p) \/ UpdateReturns(p, "nil")) => SectionsGone(sections, sections')]_vars

\* C14 amended: when update() returns nil, no section registered before the call
\* is found by SectionName or SectionId, and c.sections holds no project; when
\* update() returns an error, c.sections is as it was; and only a step of
\* AddSection, or the last step of update(), changes c.sections.
C14_SuccessfulUpdateClearsSections ==
    [][/\ \A p \in Procs :
            /\ UpdateReturns(p, "nil") =>
                  /\ SectionsGone(sections, sections')
                  /\ sections' = MakeMap
            /\ UpdateFails(p) => sections' = sections
       /\ sections' # sections =>
            \E p \in Procs : pc[p] \in {"AddSection", "update_users"} /\ pc'[p] = "idle"]_vars

\* a section was registered by AddSection, and an update() that returned nil
\* after it has left the registry empty
C14_Witness ==
    /\ crashed = "no"
    /\ sections = MakeMap
    /\ \E p, q \in Procs :
         /\ pc[p] = "idle" /\ op[p].name = "update" /\ ret[p] = "nil"
         /\ pc[q] = "idle" /\ op[q].name = "AddSection" /\ ret[q] # EmptyStr

\* the positions of a call at which it holds the write lock, and the read lock
WriteLocked ==
    { "update_workspaces", "update_projects", "update_tags", "update_users",
      "CreateTag_scan", "CreateTag_post", "CreateTag_store", "AddSection" }
ReadLocked ==
    { "Workspace", "Projects", "ProjectId", "User", "UserId", "Tag",
      "SectionName", "SectionId", "TagId_RUnlock" }

\* the lock is held only by a call in flight, at a position before its release
LockHeldInCall ==
    /\ writer # NoProc => pc[writer] \in WriteLocked
    /\ \A p \in readers : pc[p] \in ReadLocked

\* C15: a call that has returned holds no lock (the lock is held only by calls
\* in flight), and, each goroutine's call in flight taking its steps, every call
\* begun returns unless the process has ended in log.Fatalf or a panic.
C15_CallsComplete ==
    /\ []LockHeldInCall
    /\ \A p \in Procs : (pc[p] # "idle") ~> (pc[p] = "idle" \/ crashed # "no")

\* the budget of calls is spent, a CreateTag and an AddSection among them have
\* returned, nothing is in flight and the lock is free
C15_Witness ==
    /\ crashed = "no"
    /\ calls = MaxCalls
    /\ writer = NoProc /\ readers = {}
    /\ \E p, q \in Procs :
         /\ pc[p] = "idle" /\ op[p].name = "CreateTag"
         /\ pc[q] = "idle" /\ op[q].name = "AddSection"

\* C16: a call of CreateTag that is at its write of c.tagmap (cache.go:187) finds
\* c.tagmap made, and a call of AddSection that is at its write of c.sections
\* (cache.go:198, run when the project has no entry) finds c.sections made.
C16_IndexWritesInitialised ==
    \A p \in Procs :
        /\ pc[p] = "CreateTag_store" => ~tagmap.nil
        /\ (pc[p] = "AddSection" /\ ~SectionFound(sections, op[p].a)) => ~sections.nil

\* C17: AddSection returns "" exactly when it rejects the candidate (its Name does
\* not end in ':'), and every section it has stored has a Name that is not empty.
C17_EmptyReturnMeansRejected ==
    [][\A p \in Procs :
         (pc[p] = "AddSection" /\ pc'[p] = "idle") =>
            /\ ret'[p] = EmptyStr <=> ~HasSuffixColon(op[p].b.Name)
            /\ \A projId \in DOMAIN sections'.m :
                 \A i \in 1..Len(sections'.m[projId]) :
                     sections'.m[projId][i].Name # EmptyStr]_vars

\* C18: for every section registered under a project with a Name that is not
\* empty, SectionId of the project and of what SectionName returns for its Id is
\* its Id, and no other section of the project has its Name.
C18_SectionLookupsInverse ==
    \A projId \in DOMAIN sections.m :
        LET l == sections.m[projId]
        IN  \A i \in 1..Len(l) :
                l[i].Name # EmptyStr =>
                    /\ SectionIdOf(sections, projId,
                                   SectionNameOf(sections, projId, l[i].Id)) = l[i].Id
                    /\ \A j \in 1..Len(l) : l[j].Name = l[i].Name => j = i

\* C19: when update() returns nil, UserId of what User returns for the Id of a
\* fetched user is that Id.
C19_UserLookupsInverse ==
    [][\A p \in Procs :
         UpdateReturns(p, "nil") =>
            \A i \in 1..Len(users') :
                UserIdOf(users', UserOf(usermap', users'[i].Id)) = users'[i].Id]_vars

====
